---- MODULE Spec2Model ----
(***************************************************************************)
(* Premium-traded dashboard (src/app.py): the aggregation pipeline         *)
(* get_premium_traded_data, the summary statistics create_advanced_metrics *)
(* and calculate_gini, and the session state kept by main across reruns.   *)
(*                                                                         *)
(* Numbers.  Volumes, prices and lot sizes are integers; every value the   *)
(* code obtains by a division (the crore scaling, the mean, the median,    *)
(* the concentration ratio, the Gini coefficient) is an exact rational     *)
(* [num, den] in lowest terms with den > 0.  float64 rounding is not       *)
(* modelled.                                                               *)
(***************************************************************************)
EXTENDS Integers, Sequences, FiniteSets, TLC

VARIABLES
    fetched,        \* what derivatives.fno_bhav_copy answered in the last call
    result,         \* what get_premium_traded_data returned in the last call
    messages,       \* the st.warning / st.error / st.success messages of the last run
    values,         \* the 'Premium Traded (Crores)' column handed to the calculators
    metrics,        \* what create_advanced_metrics returned
    gini,           \* what calculate_gini returned
    session_state,  \* st.session_state: a function on a subset of {"data","selected_date"}
    date_input,     \* the value of the st.date_input widget
    last_ok         \* history: the date and data of the most recent successful fetch

vars == <<fetched, result, messages, values, metrics, gini,
          session_state, date_input, last_ok>>

(***************************************************************************)
(* Bounds of the model.                                                    *)
(***************************************************************************)
MaxRows == 3        \* rows of a fetched record set (SpecAggregate)
MaxLen == 6         \* length of a column handed to the calculators (SpecMetrics)
MainMaxRows == 1    \* rows of a fetched record set in main (Spec)
Today == 3          \* dates are day numbers 1..Today; st.date_input allows no later day

(***************************************************************************)
(* Exact rational arithmetic standing for the code's float arithmetic.     *)
(***************************************************************************)
Abs(a) == IF a < 0 THEN -a ELSE a

RECURSIVE GCD(_, _)
GCD(a, b) == IF b = 0 THEN a ELSE GCD(b, a % b)

\* n / d in lowest terms, d # 0.
Rat(n, d) ==
    LET g == GCD(Abs(n), Abs(d))
        s == IF d < 0 THEN -1 ELSE 1
    IN  [num |-> s * (n \div g), den |-> s * (d \div g)]

RatInt(k) == [num |-> k, den |-> 1]

RatAdd(x, y) ==
    LET g == GCD(x.den, y.den)
    IN  Rat(x.num * (y.den \div g) + y.num * (x.den \div g), (x.den \div g) * y.den)

RatNeg(x) == [num |-> -x.num, den |-> x.den]

RatSub(x, y) == RatAdd(x, RatNeg(y))

RatMul(x, y) ==
    LET g1 == GCD(Abs(x.num), y.den)
        g2 == GCD(Abs(y.num), x.den)
    IN  Rat((x.num \div g1) * (y.num \div g2), (x.den \div g2) * (y.den \div g1))

\* x / y, y # 0.
RatDiv(x, y) ==
    RatMul(x, IF y.num < 0 THEN [num |-> -y.den, den |-> -y.num]
                           ELSE [num |-> y.den, den |-> y.num])

RatLt(x, y) ==
    LET g == GCD(x.den, y.den)
    IN  x.num * (y.den \div g) < y.num * (x.den \div g)

RatLe(x, y) == ~RatLt(y, x)

RatPos(x) == x.num > 0

RECURSIVE RatSum(_)
RatSum(s) == IF s = <<>> THEN RatInt(0) ELSE RatAdd(Head(s), RatSum(Tail(s)))

(***************************************************************************)
(* Python values.                                                          *)
(***************************************************************************)
None == [kind |-> "None"]
NotCalled == [kind |-> "not called"]
Frame(cols, rows) == [kind |-> "frame", columns |-> cols, rows |-> rows]
IsFrame(v) == v.kind = "frame"
\* DataFrame.empty
Empty(df) == df.rows = <<>> \/ df.columns = {}

Warning(text) == [level |-> "warning", text |-> text]
Error(text) == [level |-> "error", text |-> text]
Success(text) == [level |-> "success", text |-> text]

(***************************************************************************)
(* get_premium_traded_data                                                 *)
(***************************************************************************)
required_cols == {"OptnTp", "TtlTradgVol", "SttlmPric", "NewBrdLotQty", "TckrSymb"}
ResultCols == {"TckrSymb", "Premium Traded (Crores)"}
CroreDivisor == 10000000

\* Ticker symbols in ascending string order, the order groupby puts its keys in.
SymbolOrder == <<"AAA", "BBB">>
Symbols == {SymbolOrder[i] : i \in DOMAIN SymbolOrder}
OptionTypes == {"PE", "CE", "XX"}
Volumes == {1, 2}
Prices == {-1, 1}
Lots == {2}

ContractRecord ==
    [OptnTp : OptionTypes, TckrSymb : Symbols, TtlTradgVol : Volumes,
     SttlmPric : Prices, NewBrdLotQty : Lots]

\* data.empty or not required_cols.issubset(data.columns)
DataUnavailableAndOnly(df) == Empty(df) /\ ~(required_cols \subseteq df.columns)
DataUnavailable(df) == Empty(df) \/ ~(required_cols \subseteq df.columns)

\* data['OptnTp'].isin(['PE', 'CE'])
IsOptionPutOnly(r) == r.OptnTp = "PE"
IsOption(r) == r.OptnTp \in {"PE", "CE"}

\* TtlTradgVol * SttlmPric * NewBrdLotQty
PremiumTraded(r) == r.TtlTradgVol * r.SttlmPric * r.NewBrdLotQty

\* The sum of 'Premium Traded' over the rows of one group.
RECURSIVE GroupSum(_, _)
GroupSum(rows, sym) ==
    IF rows = <<>> THEN 0
    ELSE (IF Head(rows).TckrSymb = sym THEN PremiumTraded(Head(rows)) ELSE 0)
         + GroupSum(Tail(rows), sym)

\* groupby('TckrSymb')['Premium Traded'].sum().reset_index(): one row per key that
\* occurs, the keys in ascending order (from the i-th symbol on).
RECURSIVE GroupBySum(_, _)
GroupBySum(rows, i) ==
    IF i > Len(SymbolOrder) THEN <<>>
    ELSE LET sym == SymbolOrder[i]
             present == \E k \in DOMAIN rows : rows[k].TckrSymb = sym
         IN  (IF present
              THEN <<[TckrSymb |-> sym, Premium |-> GroupSum(rows, sym)]>>
              ELSE <<>>) \o GroupBySum(rows, i + 1)

Permutations1(n) == {f \in [1..n -> 1..n] : \A i, j \in 1..n : f[i] = f[j] => i = j}

\* sort_values(by='Premium Traded', ascending=False) with the default kind
\* (quicksort, not stable): any arrangement of the rows with the premiums
\* descending; the order among equal premiums is the sort's choice.
SortValuesAscending(g) ==
    {[i \in 1..Len(g) |-> g[f[i]]] : f \in
        {f \in Permutations1(Len(g)) :
            \A i \in 1..Len(g) - 1 : g[f[i]].Premium <= g[f[i + 1]].Premium}}
SortValuesDescending(g) ==
    {[i \in 1..Len(g) |-> g[f[i]]] : f \in
        {f \in Permutations1(Len(g)) :
            \A i \in 1..Len(g) - 1 : g[f[i]].Premium >= g[f[i + 1]].Premium}}

\* grouped_data['Premium Traded'] / 10_000_000
Crores(p) == Rat(p, CroreDivisor)

\* grouped_data[['TckrSymb', 'Premium Traded (Crores)']]
Project(g) ==
    [i \in 1..Len(g) |-> [TckrSymb |-> g[i].TckrSymb, Crores |-> Crores(g[i].Premium)]]

\* The outcomes [ret, msgs] of get_premium_traded_data when fno_bhav_copy answers
\* `data`: a frame, None, or an exception ([kind |-> "raise"]).
\* selected_date is a datetime.date in every call main makes, so strftime does not
\* raise; the formatted date only selects the library's answer.
get_premium_traded_data(data) ==
    IF ~IsFrame(data)
    THEN \* the call raised, or data.empty raised on None: except Exception
         {[ret |-> None, msgs |-> <<Error("Error fetching data")>>]}
    ELSE IF DataUnavailable(data)
    THEN {[ret |-> None,
           msgs |-> <<Warning("Data not available or missing columns")>>]}
    ELSE LET filtered_data == SelectSeq(data.rows, IsOption)
             grouped_data == GroupBySum(filtered_data, 1)
         IN  {[ret |-> Frame(ResultCols, Project(s)), msgs |-> <<>>] :
                 s \in SortValuesDescending(grouped_data)}

(***************************************************************************)
(* create_advanced_metrics and calculate_gini, over the column             *)
(* data['Premium Traded (Crores)'] (a sequence of rationals).              *)
(***************************************************************************)
\* np.sort(values): ascending.
RECURSIVE Insert(_, _)
Insert(v, s) ==
    IF s = <<>> THEN <<v>>
    ELSE IF RatLe(v, Head(s)) THEN <<v>> \o s
    ELSE <<Head(s)>> \o Insert(v, Tail(s))

RECURSIVE np_sort(_)
np_unsorted(s) == s
np_sort(s) == IF s = <<>> THEN <<>> ELSE Insert(Head(s), np_sort(Tail(s)))

\* np.cumsum(sorted_values), carrying the running sum acc.
RECURSIVE CumSumFrom(_, _)
CumSumFrom(s, acc) ==
    IF s = <<>> THEN <<>>
    ELSE LET a == RatAdd(acc, Head(s)) IN <<a>> \o CumSumFrom(Tail(s), a)

np_cumsum(s) == CumSumFrom(s, RatInt(0))

\* data.head(k)
head(s, k) == SubSeq(s, 1, IF Len(s) < k THEN Len(s) ELSE k)

HeadRows == 5

\* Series.mean()
mean(s) == RatDiv(RatSum(s), RatInt(Len(s)))

\* Series.median(): the middle value of the sorted values, or the mean of the two
\* middle values.
median(s) ==
    LET t == np_sort(s)
        n == Len(s)
    IN  IF n % 2 = 1 THEN t[(n + 1) \div 2]
        ELSE RatDiv(RatAdd(t[n \div 2], t[n \div 2 + 1]), RatInt(2))

calculate_gini(vals) ==
    IF Len(vals) = 0 THEN RatInt(0)
    ELSE LET sorted_values == np_sort(vals)
             n == Len(vals)
             cumsum == np_cumsum(sorted_values)
             last == cumsum[Len(cumsum)]
         IN  IF RatPos(last)
             THEN RatDiv(RatSub(RatInt(n + 1),
                                RatDiv(RatMul(RatInt(2), RatSum(cumsum)), last)),
                         RatInt(n))
             ELSE RatInt(0)

\* The empty dict {}.
EmptyDict == [k \in {} |-> 0]

create_advanced_metrics(col) ==
    IF col = <<>> THEN EmptyDict
    ELSE LET total_premium == RatSum(col)
             top_5_premium == RatSum(head(col, HeadRows))
             concentration_ratio ==
                 IF RatPos(total_premium)
                 THEN RatMul(RatDiv(top_5_premium, total_premium), RatInt(100))
                 ELSE RatInt(0)
         IN  [total_premium |-> total_premium,
              avg_premium |-> mean(col),
              median_premium |-> median(col),
              concentration_ratio |-> concentration_ratio,
              gini_coefficient |-> calculate_gini(col)]

\* The column 'Premium Traded (Crores)' of a frame get_premium_traded_data returned.
CroresColumn(df) == [i \in 1..Len(df.rows) |-> df.rows[i].Crores]

(***************************************************************************)
(* Inputs.                                                                 *)
(***************************************************************************)
SeqsUpTo(S, n) == UNION {[1..k -> S] : k \in 0..n}

\* Frames fno_bhav_copy can answer with: every required column and up to n rows,
\* or one row and one required column missing.
FramesUpTo(n) ==
    {Frame(required_cols, rows) : rows \in SeqsUpTo(ContractRecord, n)}
    \cup {Frame(required_cols \ {c}, <<r>>) :
            c \in required_cols,
            r \in {x \in ContractRecord : x.TtlTradgVol = 1 /\ x.TckrSymb = "AAA"}}

FetchAnswers(n) == FramesUpTo(n) \cup {None, [kind |-> "raise"]}

\* Premiums (before the crore scaling) of the columns handed to the calculators.
ColumnPremiums == {-1, 0, 1, 2}
Columns == SeqsUpTo({Crores(p) : p \in ColumnPremiums}, MaxLen)

\* The value st.date_input starts with, date(2025, 7, 7), as a day number.
DefaultDate == 1
Dates == 1..Today

\* The record sets main is run on: one volume, one price.
MainRecord == {r \in ContractRecord : r.TtlTradgVol = 1 /\ r.SttlmPric = 1}
MainAnswers ==
    {Frame(required_cols, rows) : rows \in SeqsUpTo(MainRecord, MainMaxRows)}
    \cup {Frame(required_cols \ {c}, <<r>>) :
            c \in required_cols,
            r \in {x \in MainRecord : x.OptnTp = "PE" /\ x.TckrSymb = "AAA"}}
    \cup {None, [kind |-> "raise"]}

NoSession == [k \in {} |-> 0]
NoFetch == [date |-> 0, data |-> NotCalled]

(***************************************************************************)
(* SpecAggregate: one call of get_premium_traded_data on every answer of   *)
(* the retrieval library.                                                  *)
(***************************************************************************)
InitAggregate ==
    /\ fetched \in FetchAnswers(MaxRows)
    /\ result = NotCalled
    /\ messages = <<>>
    /\ values = <<>>
    /\ metrics = NotCalled
    /\ gini = NotCalled
    /\ session_state = NoSession
    /\ date_input = DefaultDate
    /\ last_ok = NoFetch

GetPremiumTradedData ==
    /\ result = NotCalled
    /\ \E o \in get_premium_traded_data(fetched) :
          /\ result' = o.ret
          /\ messages' = o.msgs
    /\ UNCHANGED <<fetched, values, metrics, gini, session_state, date_input, last_ok>>

NextAggregate == GetPremiumTradedData

SpecAggregate == InitAggregate /\ [][NextAggregate]_vars

(***************************************************************************)
(* SpecMetrics: one call of each calculator on every column.               *)
(***************************************************************************)
InitMetrics ==
    /\ values \in Columns
    /\ metrics = NotCalled
    /\ gini = NotCalled
    /\ fetched = NotCalled
    /\ result = NotCalled
    /\ messages = <<>>
    /\ session_state = NoSession
    /\ date_input = DefaultDate
    /\ last_ok = NoFetch

CreateAdvancedMetrics ==
    /\ metrics = NotCalled
    /\ metrics' = create_advanced_metrics(values)
    /\ UNCHANGED <<fetched, result, messages, values, gini, session_state,
                   date_input, last_ok>>

CalculateGini ==
    /\ gini = NotCalled
    /\ gini' = calculate_gini(values)
    /\ UNCHANGED <<fetched, result, messages, values, metrics, session_state,
                   date_input, last_ok>>

NextMetrics == CreateAdvancedMetrics \/ CalculateGini

SpecMetrics == InitMetrics /\ [][NextMetrics]_vars

(***************************************************************************)
(* Spec: main, rerun by Streamlit on every interaction.  The sidebar       *)
(* widgets give the run its selected_date and fetch_clicked; the run       *)
(* fetches when asked to and then displays st.session_state.data.          *)
(***************************************************************************)
Init ==
    /\ fetched = NotCalled
    /\ result = NotCalled
    /\ messages = <<>>
    /\ values = <<>>
    /\ metrics = NotCalled
    /\ gini = NotCalled
    /\ session_state = NoSession
    /\ date_input = DefaultDate
    /\ last_ok = NoFetch

\* if data is not None and not data.empty
FetchedUsable(data) == data # None /\ ~Empty(data)

\* What the run stores after a fetch that returned `data` for selected_date.
StoreDateAlways(data, selected_date) ==
    IF FetchedUsable(data)
    THEN [k \in {"data", "selected_date"} |->
             IF k = "data" THEN data ELSE selected_date]
    ELSE IF "data" \in DOMAIN session_state
    THEN [session_state EXCEPT !["selected_date"] = selected_date]
    ELSE session_state
Store(data, selected_date) ==
    IF FetchedUsable(data)
    THEN [k \in {"data", "selected_date"} |->
             IF k = "data" THEN data ELSE selected_date]
    ELSE session_state

\* if 'data' in st.session_state: metrics = create_advanced_metrics(data)
Display ==
    IF "data" \in DOMAIN session_state'
    THEN /\ values' = CroresColumn(session_state'["data"])
         /\ metrics' = create_advanced_metrics(values')
    ELSE /\ values' = <<>>
         /\ metrics' = NotCalled

\* A run without a click on Fetch Data.
NoFetchRun ==
    /\ fetched' = NotCalled
    /\ result' = NotCalled
    /\ messages' = <<>>
    /\ session_state' = session_state
    /\ Display
    /\ UNCHANGED <<gini, last_ok>>

\* The user picks another date in st.date_input.
ChangeDate ==
    /\ \E d \in Dates \ {date_input} : date_input' = d
    /\ NoFetchRun

\* The user clicks Today or Yesterday: the run's local selected_date is replaced,
\* nothing is fetched and the widget keeps its value.
ClickQuickSelect ==
    /\ \E selected_date \in {Today, Today - 1} : date_input' = date_input
    /\ NoFetchRun

\* The user clicks Fetch Data: selected_date is the widget's value.
ClickFetch ==
    /\ \E answer \in MainAnswers :
         \E o \in get_premium_traded_data(answer) :
            /\ fetched' = answer
            /\ result' = o.ret
            /\ messages' = o.msgs \o
                 (IF FetchedUsable(o.ret)
                  THEN <<Success("Data loaded successfully")>>
                  ELSE <<Error("No data available for the selected date")>>)
            /\ session_state' = Store(o.ret, date_input)
            /\ last_ok' = IF IsFrame(o.ret) /\ o.ret.rows # <<>>
                          THEN [date |-> date_input, data |-> o.ret]
                          ELSE last_ok
    /\ Display
    /\ UNCHANGED <<date_input, gini>>

Next == ChangeDate \/ ClickQuickSelect \/ ClickFetch

Spec == Init /\ [][Next]_vars

(***************************************************************************)
(* Properties.  The definitions below state the expected values without    *)
(* the operators of the model: sums run over index sets, and sortedness    *)
(* is expressed by ranks.                                                  *)
(***************************************************************************)
Called(v) == v # NotCalled

\* The sum of volume * price * lot over the rows with index in I.
RECURSIVE ProductSum(_, _)
ProductSum(rows, I) ==
    IF I = {} THEN 0
    ELSE LET i == CHOOSE i \in I : TRUE
         IN  rows[i].TtlTradgVol * rows[i].SttlmPric * rows[i].NewBrdLotQty
             + ProductSum(rows, I \ {i})

\* The indices of the PE/CE rows with symbol sym.
OptionRows(rows, sym) ==
    {i \in DOMAIN rows : rows[i].OptnTp \in {"PE", "CE"} /\ rows[i].TckrSymb = sym}

OptionSymbols(rows) == {sym \in Symbols : OptionRows(rows, sym) # {}}

\* v = p / 10,000,000
IsScaled(v, p) == v.den > 0 /\ v.num * CroreDivisor = p * v.den

CompleteInput == IsFrame(fetched) /\ fetched.rows # <<>> /\ required_cols \subseteq fetched.columns

\* C1: on a non-empty record set with every required field, the result has exactly
\* one row per symbol occurring in a PE/CE row, no symbol twice, and each row's value
\* is the sum of volume * price * lot over the PE/CE rows of that symbol, divided by
\* 10,000,000.
C1_OneRowPerOptionSymbol ==
    (Called(result) /\ CompleteInput) =>
        /\ IsFrame(result)
        /\ {result.rows[k].TckrSymb : k \in DOMAIN result.rows} = OptionSymbols(fetched.rows)
        /\ Len(result.rows) = Cardinality(OptionSymbols(fetched.rows))
        /\ \A k \in DOMAIN result.rows :
              IsScaled(result.rows[k].Crores,
                       ProductSum(fetched.rows,
                                  OptionRows(fetched.rows, result.rows[k].TckrSymb)))

\* Two symbols in the result, one of them summed over two option rows.
C1_Witness ==
    /\ Called(result) /\ CompleteInput /\ IsFrame(result)
    /\ Len(result.rows) = 2
    /\ \E sym \in Symbols : Cardinality(OptionRows(fetched.rows, sym)) = 2

\* The index of the first PE/CE row with symbol sym.
FirstOccurrence(rows, sym) ==
    CHOOSE i \in OptionRows(rows, sym) : \A j \in OptionRows(rows, sym) : i <= j

\* The symbols first occur in descending symbol order: the reverse of the order in
\* which groupby hands the groups to the sort.
FirstOccurrencesDescend(rows) ==
    \A a, b \in DOMAIN SymbolOrder :
        (a < b /\ {SymbolOrder[a], SymbolOrder[b]} \subseteq OptionSymbols(rows)) =>
            FirstOccurrence(rows, SymbolOrder[b]) < FirstOccurrence(rows, SymbolOrder[a])

DataNotAvailable == <<Warning("Data not available or missing columns")>>

NegativeOptionRows(rows) ==
    {i \in DOMAIN rows :
        /\ rows[i].OptnTp \in {"PE", "CE"}
        /\ rows[i].TtlTradgVol * rows[i].SttlmPric * rows[i].NewBrdLotQty < 0}

\* C4 as claimed: when a PE/CE row has a negative premium, a DataIntegrity warning is
\* given, the aggregation still returns its result, and every group's value is the
\* sum over its PE/CE rows of non-negative premium only.
C4_NegativePremiumExcluded ==
    (Called(result) /\ CompleteInput /\ NegativeOptionRows(fetched.rows) # {}) =>
        /\ IsFrame(result)
        /\ \E m \in DOMAIN messages : messages[m].level = "warning"
        /\ \A k \in DOMAIN result.rows :
              IsScaled(result.rows[k].Crores,
                       ProductSum(fetched.rows,
                                  OptionRows(fetched.rows, result.rows[k].TckrSymb)
                                  \ NegativeOptionRows(fetched.rows)))

NoDataError == Error("No data available for the selected date")

\* C5 as claimed: when the record set is non-empty with every required field and has
\* no PE/CE row, what is returned differs from the DataUnavailable return (None) and
\* the user is not shown the "no data for this date" message.
C5_EmptyResultDistinct ==
    (Called(result) /\ CompleteInput
       /\ \A i \in DOMAIN fetched.rows : fetched.rows[i].OptnTp \notin {"PE", "CE"}) =>
        /\ result # None
        /\ \A m \in DOMAIN messages : messages[m] # NoDataError

\* Ranks of the i-th value: its place in the ascending and in the descending order
\* (equal values ranked by index).
RankAscending(s, i) ==
    Cardinality({j \in DOMAIN s : RatLt(s[j], s[i])})
    + Cardinality({j \in 1..i : s[j] = s[i]})

RankDescending(s, i) ==
    Cardinality({j \in DOMAIN s : RatLt(s[i], s[j])})
    + Cardinality({j \in 1..i : s[j] = s[i]})

\* The sum of the values with index in I.
RECURSIVE IndexSum(_, _)
IndexSum(s, I) ==
    IF I = {} THEN RatInt(0)
    ELSE LET i == CHOOSE i \in I : TRUE IN RatAdd(s[i], IndexSum(s, I \ {i}))

\* The sum of the cumulative sums of the ascending order: the value of rank r is in
\* the cumulative sums r, r + 1, ..., n.
RECURSIVE CumulativeTotal(_, _)
CumulativeTotal(s, I) ==
    IF I = {} THEN RatInt(0)
    ELSE LET i == CHOOSE i \in I : TRUE
         IN  RatAdd(RatMul(RatInt(Len(s) - RankAscending(s, i) + 1), s[i]),
                    CumulativeTotal(s, I \ {i}))

NonNegative(s) == \A i \in DOMAIN s : s[i].num >= 0

\* C6 as claimed, on non-negative values: gini is
\* (n + 1 - 2 * sum(cumulative_sums)) / (n * last_cumulative_sum), and 0 when the last
\* cumulative sum is 0.
C6_GiniAsClaimed ==
    (Called(gini) /\ values # <<>> /\ NonNegative(values)) =>
        LET n == Len(values)
            last == IndexSum(values, DOMAIN values)
            total == CumulativeTotal(values, DOMAIN values)
        IN  gini = IF last.num = 0 THEN RatInt(0)
                   ELSE RatDiv(RatSub(RatInt(n + 1), RatMul(RatInt(2), total)),
                               RatMul(RatInt(n), last))

\* C6 as amended: gini is (n + 1 - 2 * sum(cumulative_sums) / last_cumulative_sum) / n
\* when the last cumulative sum is positive, and 0 when it is not or n = 0.
C6_Gini ==
    Called(gini) =>
        LET n == Len(values)
            last == IndexSum(values, DOMAIN values)
            total == CumulativeTotal(values, DOMAIN values)
        IN  IF n = 0 \/ ~RatPos(last) THEN gini = RatInt(0)
            ELSE RatMul(RatMul(gini, RatInt(n)), last)
                 = RatSub(RatMul(RatInt(n + 1), last), RatMul(RatInt(2), total))

\* An unsorted column of unequal values, with a positive coefficient.
C6_Witness ==
    /\ Called(gini) /\ Len(values) >= 3
    /\ RatLt(values[2], values[1])
    /\ RatPos(IndexSum(values, DOMAIN values))
    /\ RatPos(gini)

MetricKeys ==
    {"total_premium", "avg_premium", "median_premium", "concentration_ratio",
     "gini_coefficient"}

\* C7 as claimed, on non-empty columns of non-negative values: concentration_ratio is
\* the sum of the min(5, count) largest values divided by the total, times 100,
\* whatever the order of the rows, and 0 when the total is 0.
C7_TopFiveLargest ==
    (Called(metrics) /\ values # <<>> /\ NonNegative(values)) =>
        LET total == IndexSum(values, DOMAIN values)
            largest == {i \in DOMAIN values : RankDescending(values, i) <= 5}
        IN  /\ "concentration_ratio" \in DOMAIN metrics
            /\ IF total.num = 0 THEN metrics.concentration_ratio = RatInt(0)
               ELSE RatMul(metrics.concentration_ratio, total)
                    = RatMul(IndexSum(values, largest), RatInt(100))

\* C8 as claimed: on the empty sequence the metrics hold total, average, median,
\* concentration_ratio and gini, all zero.
C8_EmptyAllZero ==
    (Called(metrics) /\ values = <<>>) =>
        /\ MetricKeys \subseteq DOMAIN metrics
        /\ \A k \in MetricKeys : metrics[k] = RatInt(0)

InRange(x, lo, hi) == RatLe(RatInt(lo), x) /\ RatLe(x, RatInt(hi))

\* C9 as claimed: on every sequence of non-negative values the metrics returned hold
\* a concentration_ratio in [0, 100] and a gini_coefficient in [0, 1].
C9_MetricsInRange ==
    (Called(metrics) /\ NonNegative(values)) =>
        /\ {"concentration_ratio", "gini_coefficient"} \subseteq DOMAIN metrics
        /\ InRange(metrics.concentration_ratio, 0, 100)
        /\ InRange(metrics.gini_coefficient, 0, 1)

\* The same ranges on the non-empty sequences of non-negative values.
NonEmptyMetricsInRange ==
    (Called(metrics) /\ values # <<>> /\ NonNegative(values)) =>
        /\ InRange(metrics.concentration_ratio, 0, 100)
        /\ InRange(metrics.gini_coefficient, 0, 1)

\* The stored data is a non-empty result and it is stored with the date of the most
\* recent successful fetch; nothing is stored before the first one.
SessionOfLastSuccess ==
    IF "data" \in DOMAIN session_state
    THEN /\ DOMAIN session_state = {"data", "selected_date"}
         /\ IsFrame(session_state["data"])
         /\ session_state["data"].rows # <<>>
         /\ session_state["data"] = last_ok.data
         /\ session_state["selected_date"] = last_ok.date
    ELSE session_state = NoSession /\ last_ok = NoFetch

\* A fetch that returned None or an empty result leaves the session state as it was;
\* a successful one stores its result and its date together.
FetchStoresOnSuccessOnly ==
    Called(fetched') =>
        IF result' = None \/ result'.rows = <<>>
        THEN session_state' = session_state
        ELSE /\ DOMAIN session_state' = {"data", "selected_date"}
             /\ session_state'["data"] = result'
             /\ session_state'["selected_date"] = date_input

\* C10: across any sequence of runs of main, a failed fetch changes neither the
\* stored data nor the stored date, a successful fetch overwrites both, and the
\* stored data is always non-empty and stored with the date it was fetched for.
C10_SessionState == []SessionOfLastSuccess /\ [][FetchStoresOnSuccessOnly]_vars

\* Data is stored for one date, and the last run was a failed fetch for another.
C10_Witness ==
    /\ "data" \in DOMAIN session_state
    /\ Called(fetched) /\ result = None
    /\ date_input # session_state["selected_date"]
====
